---- MODULE Spec2Model ----
(***************************************************************************)
(* Rule tiers of the library RDF service (src/testapp.py, src/testapp1.py, *)
(* src/updatedapp.py).  A graph is a set of triples <<s, p, o>>.  A term   *)
(* is the sequence of the lexical pieces of its text, so that an IRI built *)
(* by string concatenation (EX + token) is the concatenation of pieces and *)
(* two IRIs are equal exactly when their texts are.                        *)
(***************************************************************************)
EXTENDS Integers, Sequences, FiniteSets, TLC

VARIABLES graph, input, op, text, again, raised, result

vars == <<graph, input, op, text, again, raised, result>>

(***************************************************************************)
(* Namespaces and terms                                                    *)
(***************************************************************************)
\* EX = Namespace("http://users.jyu.fi/~tanibir/")
EX == <<"http://", "users", ".", "jyu", ".", "fi/~tanibir/">>

\* EX.name, and URIRef(EX + token): the base followed by the token's text
Ex(word) == EX \o word

\* rdflib's RDF.type
RDF_type == <<"http://", "www", ".", "w3", ".", "org/1999/02/22-rdf-syntax-ns#", "type">>

\* Python's None, the default of next(iterator, None)
None == <<"None">>

hasAuthor == Ex(<<"hasAuthor">>)
wrote == Ex(<<"wrote">>)
writtenBy == Ex(<<"writtenBy">>)
hasGenre == Ex(<<"hasGenre">>)
relatedTo == Ex(<<"relatedTo">>)
borrowedBy == Ex(<<"borrowedBy">>)
FrequentBorrower == Ex(<<"FrequentBorrower">>)
Book == Ex(<<"Book">>)
Loan == Ex(<<"Loan">>)
User == Ex(<<"User">>)
hasExpertise == Ex(<<"hasExpertise">>)
recommendedFor == Ex(<<"recommendedFor">>)
prefersGenre == Ex(<<"prefersGenre">>)

\* truth value of a term in `if author and genre`, `if member`
Truthy(t) == t # None /\ Len(t) > 0

(***************************************************************************)
(* rdflib Graph accessors used by the tiers                                *)
(***************************************************************************)
\* graph.subject_objects(p): the (subject, object) pairs of predicate p
subject_objects(g, p) == {<<t[1], t[3]>> : t \in {u \in g : u[2] = p}}

\* graph.subjects(p, o); o = None is rdflib's wildcard
subjects(g, p, o) == {t[1] : t \in {u \in g : u[2] = p /\ (o = None \/ u[3] = o)}}

\* graph.objects(s, p); s = None is rdflib's wildcard
objects(g, s, p) == {t[3] : t \in {u \in g : u[2] = p /\ (s = None \/ u[1] = s)}}

\* next(graph.objects(s, p), None): the store iterates a set, so the first
\* element is any one of the objects; None when there is none
NextObject(g, s, p) == IF objects(g, s, p) = {} THEN {None} ELSE objects(g, s, p)

(***************************************************************************)
(* Fixed tiers                                                             *)
(***************************************************************************)
\* Rule 1 of testapp.apply_basic_library_rules
testapp_rule1(g) ==
    g \cup {<<so[2], wrote, so[1]>> : so \in subject_objects(g, hasAuthor)}
      \cup {<<so[1], writtenBy, so[2]>> : so \in subject_objects(g, hasAuthor)}

\* Rule 1 with subject and object of the derived triple exchanged
testapp1_rule1_swapped(g) ==
    g \cup {<<so[1], wrote, so[2]>> : so \in subject_objects(g, hasAuthor)}

\* Rule 1 of testapp1.apply_basic_library_rules
testapp1_rule1(g) ==
    g \cup {<<so[2], wrote, so[1]>> : so \in subject_objects(g, hasAuthor)}

\* genre_books: genre -> the books listed under it
genre_books(g) ==
    [genre \in {so[2] : so \in subject_objects(g, hasGenre)} |->
        {so[1] : so \in {x \in subject_objects(g, hasGenre) : x[2] = genre}}]

\* Rule 2 without the test book1 != book2
rule2_with_self_pairs(g) ==
    g \cup UNION {{<<pr[1], relatedTo, pr[2]>> :
                      pr \in genre_books(g)[genre] \X genre_books(g)[genre]} :
                  genre \in DOMAIN genre_books(g)}

\* Rule 2: books of one genre are related, book1 != book2
rule2(g) ==
    g \cup UNION {{<<pr[1], relatedTo, pr[2]>> :
                      pr \in {x \in genre_books(g)[genre] \X genre_books(g)[genre] : x[1] # x[2]}} :
                  genre \in DOMAIN genre_books(g)}

\* borrower_loans: member -> the loans borrowed by the member
borrower_loans(g) ==
    [member \in {so[2] : so \in subject_objects(g, borrowedBy)} |->
        {so[1] : so \in {x \in subject_objects(g, borrowedBy) : x[2] = member}}]

\* Rule 3: len(loans) > 1 makes the member a FrequentBorrower
rule3(g) ==
    g \cup {<<member, RDF_type, FrequentBorrower>> :
               member \in {m \in DOMAIN borrower_loans(g) : Cardinality(borrower_loans(g)[m]) > 1}}

testapp_apply_basic_library_rules(g) == rule3(rule2(testapp_rule1(g)))

testapp1_apply_basic_library_rules(g) == rule2(testapp1_rule1(g))

\* the choices next(graph.objects(x, p), None) can make, one per x of xs
FirstObjects(g, xs, p) ==
    {f \in [xs -> UNION {NextObject(g, x, p) : x \in xs}] :
        \A x \in xs : f[x] \in NextObject(g, x, p)}

\* Advanced rule 1: author_genres and the hasExpertise triples, for the
\* chosen first author fa[book] and first genre fg[book] of every Book
expertise(g, fa, fg) ==
    g \cup {<<fa[book], hasExpertise, fg[book]>> :
               book \in {b \in subjects(g, RDF_type, Book) : Truthy(fa[b]) /\ Truthy(fg[b])}}

\* the graphs Advanced rule 1 can produce from g
expertise_outcomes(g) ==
    {expertise(g, fa, fg) :
        fa \in FirstObjects(g, subjects(g, RDF_type, Book), hasAuthor),
        fg \in FirstObjects(g, subjects(g, RDF_type, Book), hasGenre)}

\* testapp Advanced rule 2: every borrower of a Loan gets the first genre
\* of the graph, and the books of that genre are recommended to the member
testapp_recommend(g, fm, genre) ==
    g \cup UNION {{<<book, recommendedFor, fm[loan]>> : book \in subjects(g, hasGenre, genre)} :
                  loan \in {l \in subjects(g, RDF_type, Loan) : Truthy(fm[l])}}

testapp_recommend_outcomes(g) ==
    {testapp_recommend(g, fm, genre) :
        fm \in FirstObjects(g, subjects(g, RDF_type, Loan), borrowedBy),
        genre \in NextObject(g, None, hasGenre)}

\* testapp1 Advanced rule 2: books of a User's first preferred genre
testapp1_recommend(g, fp) ==
    g \cup UNION {{<<book, recommendedFor, user>> : book \in subjects(g, hasGenre, fp[user])} :
                  user \in {u \in subjects(g, RDF_type, User) : Truthy(fp[u])}}

testapp1_recommend_outcomes(g) ==
    {testapp1_recommend(g, fp) :
        fp \in FirstObjects(g, subjects(g, RDF_type, User), prefersGenre)}

\* the graphs testapp.apply_advanced_library_rules can return
testapp_apply_advanced_library_rules(g) ==
    UNION {testapp_recommend_outcomes(g2) :
           g2 \in expertise_outcomes(testapp_apply_basic_library_rules(g))}

\* the graphs testapp1.apply_advanced_library_rules can return
testapp1_apply_advanced_library_rules(g) ==
    UNION {testapp1_recommend_outcomes(g2) :
           g2 \in expertise_outcomes(testapp1_apply_basic_library_rules(g))}

(***************************************************************************)
(* Rule text.  A text is the sequence of its lines (split on '\n'); a line *)
(* is the sequence of its lexical pieces, " " being white space.  The      *)
(* pieces "=>", ".", "THEN", "IF" occur in a line only as whole pieces; a  *)
(* piece whose text holds another keyword inside it is listed in Spelled.  *)
(***************************************************************************)
RECURSIVE lstrip(_)
lstrip(s) == IF s # <<>> /\ Head(s) = " " THEN lstrip(Tail(s)) ELSE s

RECURSIVE rstrip(_)
rstrip(s) == IF s # <<>> /\ s[Len(s)] = " " THEN rstrip(SubSeq(s, 1, Len(s) - 1)) ELSE s

\* str.strip()
strip(s) == rstrip(lstrip(s))

\* index of the first piece of s equal to sep, 0 when there is none
find(s, sep) ==
    IF \E i \in 1..Len(s) : s[i] = sep
    THEN CHOOSE i \in 1..Len(s) : s[i] = sep /\ \A j \in 1..(i - 1) : s[j] # sep
    ELSE 0

\* str.split(sep): the parts between the occurrences of sep
RECURSIVE split(_, _)
split(s, sep) ==
    IF find(s, sep) = 0 THEN <<s>>
    ELSE <<SubSeq(s, 1, find(s, sep) - 1)>> \o split(SubSeq(s, find(s, sep) + 1, Len(s)), sep)

\* str.split(): the white-space separated words
RECURSIVE words(_)
words(s) ==
    IF lstrip(s) = <<>> THEN <<>>
    ELSE LET t == lstrip(s)
             n == IF find(t, " ") = 0 THEN Len(t) ELSE find(t, " ") - 1
         IN  <<SubSeq(t, 1, n)>> \o words(SubSeq(t, n + 1, Len(t)))

\* the pieces whose text holds a keyword as a proper part, with the parts
\* the text is made of
Spelled == [piece \in {"localhost/wrote"} |-> <<"localhost/", "wrote">>]

\* the text of s with such pieces spelled out
RECURSIVE spelled(_)
spelled(s) ==
    IF s = <<>> THEN <<>>
    ELSE (IF Head(s) \in DOMAIN Spelled THEN Spelled[Head(s)] ELSE <<Head(s)>>)
         \o spelled(Tail(s))

\* `sub in s`, a substring test: the keyword is found anywhere in the text,
\* inside a longer token as well
contains(s, sub) == find(spelled(s), sub) # 0

\* str.startswith
startswith(s, prefix) == s # <<>> /\ Head(s) = prefix

\* [r.strip() for r in rules_text.split('\n') if r.strip()]
rule_lines(txt) == SelectSeq([i \in 1..Len(txt) |-> strip(txt[i])], LAMBDA r : r # <<>>)

\* `not rules_text`: the empty string is the text of one empty line
is_empty(txt) == txt = << <<>> >>

\* `not rules_text.strip()`: nothing but white space and line ends
is_blank(txt) == rule_lines(txt) = <<>>

(***************************************************************************)
(* Textual (custom) tier                                                   *)
(***************************************************************************)
\* the derivation with the writtenBy triple of the Basic rules added
custom_inversion_with_writtenBy(g) ==
    g \cup {<<so[2], wrote, so[1]>> : so \in subject_objects(g, hasAuthor)}
      \cup {<<so[1], writtenBy, so[2]>> : so \in subject_objects(g, hasAuthor)}

\* the derivation of the one implemented condition/action pair
custom_inversion(g) ==
    g \cup {<<so[2], wrote, so[1]>> : so \in subject_objects(g, hasAuthor)}

\* one rule of testapp.apply_custom_rules on the graph g: the graph after
\* it, and whether the unpacking of rule.split('THEN') raised
testapp_custom_rule(g, rule) ==
    IF startswith(rule, "IF") /\ contains(rule, "THEN")
    THEN IF Len(split(rule, "THEN")) # 2
         THEN [graph |-> g, raised |-> TRUE]
         ELSE IF contains(strip(Tail(split(rule, "THEN")[1])), "hasAuthor")
                 /\ contains(strip(split(rule, "THEN")[2]), "wrote")
              THEN [graph |-> custom_inversion(g), raised |-> FALSE]
              ELSE [graph |-> g, raised |-> FALSE]
    ELSE [graph |-> g, raised |-> FALSE]

\* one rule of testapp1.apply_custom_rules
testapp1_custom_rule(g, rule) ==
    IF contains(rule, "=>")
    THEN IF Len(split(rule, "=>")) # 2
         THEN [graph |-> g, raised |-> TRUE]
         ELSE IF contains(strip(split(rule, "=>")[1]), "hasAuthor")
                 /\ contains(strip(split(rule, "=>")[2]), "wrote")
              THEN [graph |-> custom_inversion(g), raised |-> FALSE]
              ELSE [graph |-> g, raised |-> FALSE]
    ELSE [graph |-> g, raised |-> FALSE]

\* the loop over the rules: the graph object is extended in place, and an
\* exception leaves the loop with the graph as it is at that point
RECURSIVE testapp_custom_loop(_, _)
testapp_custom_loop(g, rules) ==
    IF rules = <<>> THEN [graph |-> g, raised |-> FALSE]
    ELSE IF testapp_custom_rule(g, Head(rules)).raised
         THEN testapp_custom_rule(g, Head(rules))
         ELSE testapp_custom_loop(testapp_custom_rule(g, Head(rules)).graph, Tail(rules))

RECURSIVE testapp1_custom_loop(_, _)
testapp1_custom_loop(g, rules) ==
    IF rules = <<>> THEN [graph |-> g, raised |-> FALSE]
    ELSE IF testapp1_custom_rule(g, Head(rules)).raised
         THEN testapp1_custom_rule(g, Head(rules))
         ELSE testapp1_custom_loop(testapp1_custom_rule(g, Head(rules)).graph, Tail(rules))

testapp_apply_custom_rules(g, txt) ==
    IF is_empty(txt) \/ is_blank(txt) THEN [graph |-> g, raised |-> FALSE]
    ELSE testapp_custom_loop(g, rule_lines(txt))

testapp1_apply_custom_rules(g, txt) ==
    IF is_empty(txt) THEN [graph |-> g, raised |-> FALSE]
    ELSE testapp1_custom_loop(g, rule_lines(txt))

(***************************************************************************)
(* Declarative (CWM) tier                                                  *)
(***************************************************************************)
\* the clauses of one side of a rule: the non-blank '.'-separated parts,
\* each split into its words
clauses(part) ==
    LET cs == SelectSeq(split(strip(part), "."), LAMBDA c : strip(c) # <<>>)
    IN  [i \in 1..Len(cs) |-> words(cs[i])]

\* the unpacking accepting a clause of more than three words
three_words_or_more(cs) == \A i \in 1..Len(cs) : Len(cs[i]) >= 3

\* s, p, o = [...]: the unpacking needs exactly three words
three_words(cs) == \A i \in 1..Len(cs) : Len(cs[i]) = 3

\* parse_cwm_rule: ok is FALSE where the function raises ValueError
parse_cwm_rule(rule_text) ==
    LET parts == split(rule_text, "=>")
        antecedent == clauses(parts[1])
        consequent == clauses(parts[2])
    IN  IF Len(parts) # 2
        THEN [ok |-> FALSE, antecedent |-> <<>>, consequent |-> <<>>]
        ELSE IF ~three_words(antecedent) \/ ~three_words(consequent)
             THEN [ok |-> FALSE, antecedent |-> <<>>, consequent |-> <<>>]
             ELSE [ok |-> TRUE, antecedent |-> antecedent, consequent |-> consequent]

\* the pieces that are not part of a name
Punctuation == {"?", "ex:", "http://", "https://", " ", ".", "=>"}

\* the text of the predicate in the query: "?" + Variable.n3() for a
\* variable, the ex: prefix before anything that does not start with a
\* URI scheme, the word itself otherwise
predicate_text(p) ==
    IF startswith(p, "?") THEN <<"?", "?">> \o Tail(p)
    ELSE IF ~(startswith(p, "http://") \/ startswith(p, "https://")) THEN <<"ex:">> \o p
         ELSE p

\* what the SPARQL parser makes of a word of the WHERE clause under
\* PREFIX ex: <EX>: ?name is a variable, ex:local is EX + local (a local
\* part may contain ':'), and any other word is a syntax error
sparql_term(w) ==
    IF Len(w) = 2 /\ w[1] = "?" /\ w[2] \notin Punctuation
    THEN [kind |-> "var", v |-> w]
    ELSE IF Len(w) >= 2 /\ w[1] = "ex:"
            /\ \A i \in 2..Len(w) : w[i] \notin (Punctuation \ {"ex:"})
         THEN [kind |-> "iri", v |-> Ex(Tail(w))]
         ELSE [kind |-> "error", v |-> w]

\* the first clause of the antecedent written for every clause
query_parts_first_clause(antecedent) ==
    [i \in 1..Len(antecedent) |->
        <<sparql_term(antecedent[1][1]),
          sparql_term(predicate_text(antecedent[1][2])),
          sparql_term(antecedent[1][3])>>]

\* query_parts: the triple patterns of the antecedent as the query has them
query_parts(antecedent) ==
    [i \in 1..Len(antecedent) |->
        <<sparql_term(antecedent[i][1]),
          sparql_term(predicate_text(antecedent[i][2])),
          sparql_term(antecedent[i][3])>>]

\* new_graph.query(query_str) raises when a word of the query does not parse
query_error(antecedent) ==
    LET parts == query_parts(antecedent)
    IN  \E i \in 1..Len(antecedent) : \E k \in 1..3 : parts[i][k].kind = "error"

\* var_map: the variables of the antecedent, keyed by their text
var_map(antecedent) ==
    {w \in {antecedent[i][k] : i \in 1..Len(antecedent), k \in 1..3} : startswith(w, "?")}

\* the value a pattern position has under a row: a constant, the binding
\* of a bound variable, None for an unbound variable
position_value(q, row) ==
    IF q.kind = "iri" THEN q.v
    ELSE IF q.v \in DOMAIN row THEN row[q.v] ELSE None

\* the triples of g one pattern matches under the bindings of row
pattern_matches(g, pat, row) ==
    {t \in g :
        /\ \A k \in 1..3 : position_value(pat[k], row) \in {None, t[k]}
        /\ \A k \in 1..3 : \A j \in 1..3 :
              (pat[k].kind = "var" /\ pat[j].kind = "var" /\ pat[k].v = pat[j].v) => t[k] = t[j]}

\* row extended by the variables the pattern binds to the triple t
extend_row(pat, row, t) ==
    [w \in DOMAIN row \cup {pat[k].v : k \in {j \in 1..3 : pat[j].kind = "var"}} |->
        IF w \in DOMAIN row THEN row[w]
        ELSE t[CHOOSE k \in 1..3 : pat[k].kind = "var" /\ pat[k].v = w]]

\* one position of a consequent template under the bindings: bindings.get
\* for a variable (None when unbound), URIRef(EX + word) otherwise
template_value(w, bindings) ==
    IF startswith(w, "?")
    THEN IF w \in DOMAIN bindings THEN bindings[w] ELSE None
    ELSE Ex(w)

\* the templates before the first one with an unbound variable: the loop
\* over the consequent left (break) instead of continued
instantiate_until_unbound(consequent, bindings) ==
    {<<template_value(consequent[i][1], bindings),
       template_value(consequent[i][2], bindings),
       template_value(consequent[i][3], bindings)>> :
        i \in {j \in 1..Len(consequent) :
                 \A h \in 1..j : \A k \in 1..3 :
                    template_value(consequent[h][k], bindings) # None}}

\* the triples the consequent adds for one result row; a template with an
\* unbound variable is skipped (continue)
instantiate(consequent, bindings) ==
    {<<template_value(consequent[i][1], bindings),
       template_value(consequent[i][2], bindings),
       template_value(consequent[i][3], bindings)>> :
        i \in {j \in 1..Len(consequent) :
                 \A k \in 1..3 : template_value(consequent[j][k], bindings) # None}}

\* the solutions of the patterns on the graph g, extending row: the join the
\* query engine computes, pattern after pattern, when the graph does not
\* change while it is evaluated
RECURSIVE rows(_, _, _)
rows(g, pats, row) ==
    IF pats = <<>> THEN {row}
    ELSE UNION {rows(g, Tail(pats), extend_row(Head(pats), row, t)) :
                t \in pattern_matches(g, Head(pats), row)}

\* The result rows are produced lazily, while the loop body adds triples to
\* the graph being queried: each pattern takes its matches from the graph
\* as it is when the pattern is reached for the row at hand, and visits
\* them in the store's order.  rule_outcomes is the set of graphs the loop
\* over the results can end with, from the running graph g, for the
\* patterns still to match under row.
RECURSIVE rule_outcomes(_, _, _, _)
RECURSIVE visit_matches(_, _, _, _, _)
rule_outcomes(g, pats, row, consequent) ==
    IF pats = <<>>
    THEN {g \cup instantiate(consequent, row)}
    ELSE visit_matches(g, pattern_matches(g, Head(pats), row), pats, row, consequent)

\* the loop over the results left after its first row
visit_first_only(g, pending, pats, row, consequent) ==
    IF pending = {} THEN {g}
    ELSE UNION {rule_outcomes(g, Tail(pats), extend_row(Head(pats), row, t), consequent) :
                t \in pending}

\* the matches still to visit once the body of a row has taken the graph
\* from g to g2.  The store either copies the matching triples when the
\* iteration starts, or, for a pattern with subject and object both free,
\* walks the objects of the predicate and takes the subjects of an object
\* when it reaches it: a triple added meanwhile under an object not yet
\* finished is then visited too.
pending_after(g, g2, rest, pat, row) ==
    {rest,
     rest \cup {u \in pattern_matches(g2, pat, row) \ g :
                  /\ position_value(pat[1], row) = None
                  /\ position_value(pat[3], row) = None
                  /\ \E v \in rest : v[3] = u[3]}}

visit_matches(g, pending, pats, row, consequent) ==
    IF pending = {} THEN {g}
    ELSE UNION {UNION {UNION {visit_matches(g2, p2, pats, row, consequent) :
                              p2 \in pending_after(g, g2, pending \ {t}, Head(pats), row)} :
                       g2 \in rule_outcomes(g, Tail(pats), extend_row(Head(pats), row, t),
                                            consequent)} :
                t \in pending}

\* The engine does not evaluate the patterns of a basic graph pattern in
\* the order of the query text: it sorts them (reorderTriples) by the number
\* of their variables not yet known, then by how often their variables occur
\* in the whole pattern list (most first), then by the terms themselves.

\* str comparison for the names that occur in patterns: the pieces in the
\* order of their first characters
PieceOrder ==
    <<".", "?", "Alice", "ex:", "fi/~tanibir/", "g", "hasAuthor", "hasGenre", "http://",
      "jyu", "o", "p", "s", "users", "wrote", "x", "y", "z">>

piece_rank(c) ==
    IF \E i \in 1..Len(PieceOrder) : PieceOrder[i] = c
    THEN CHOOSE i \in 1..Len(PieceOrder) : PieceOrder[i] = c
    ELSE 0

\* a < b for two texts
RECURSIVE text_before(_, _)
text_before(a, b) ==
    IF b = <<>> THEN FALSE
    ELSE IF a = <<>> THEN TRUE
    ELSE IF Head(a) = Head(b) THEN text_before(Tail(a), Tail(b))
    ELSE piece_rank(Head(a)) < piece_rank(Head(b))

\* a < b for two terms: a Variable is before a URIRef, two terms of one
\* type compare as their texts
term_before(a, b) ==
    IF a.kind # b.kind THEN a.kind = "var" ELSE text_before(a.v, b.v)

\* p < q for two triple patterns, compared as tuples
triple_before(p, q) ==
    \E k \in 1..3 : /\ \A j \in 1..(k - 1) : p[j] = q[j]
                    /\ p[k] # q[k]
                    /\ term_before(p[k], q[k])

\* varscount: the occurrences of a variable in the whole pattern list
varscount(all, v) ==
    Cardinality({ik \in (1..Len(all)) \X (1..3) :
                    all[ik[1]][ik[2]].kind = "var" /\ all[ik[1]][ik[2]].v = v})

\* _knownTerms: the sort key of a pattern (its last component, whether the
\* object is not a literal, is the same for every pattern here)
known_terms(pat, varsknown, all) ==
    LET unknown(k) == IF pat[k].kind = "var" /\ pat[k].v \notin varsknown THEN 1 ELSE 0
        count(k) == IF pat[k].kind = "var" THEN varscount(all, pat[k].v) ELSE 0
    IN  <<unknown(1) + unknown(2) + unknown(3), 0 - (count(1) + count(2) + count(3))>>

\* (key, pattern) of p sorts before (key, pattern) of q
sorts_before(p, q, varsknown, all) ==
    LET kp == known_terms(p, varsknown, all)
        kq == known_terms(q, varsknown, all)
    IN  \/ kp[1] < kq[1]
        \/ kp[1] = kq[1] /\ kp[2] < kq[2]
        \/ kp = kq /\ triple_before(p, q)

\* sorted(...): the patterns in ascending order
sorted_patterns(pats, varsknown, all) ==
    LET f == CHOOSE h \in Permutations(1..Len(pats)) :
                 \A i \in 1..Len(pats) : \A j \in (i + 1)..Len(pats) :
                     ~sorts_before(pats[h[j]], pats[h[i]], varsknown, all)
    IN  [i \in 1..Len(pats) |-> pats[f[i]]]

\* one round of the loop of reorderTriples: the patterns still to place are
\* sorted, the first is placed, and the variables of the leading patterns
\* with as many unknown variables as the first become known
RECURSIVE reorder_from(_, _, _)
reorder_from(pats, varsknown, all) ==
    IF pats = <<>> THEN <<>>
    ELSE LET s == sorted_patterns(pats, varsknown, all)
             t == known_terms(s[1], varsknown, all)[1]
             block == {i \in 1..Len(s) :
                         \A j \in 1..i : known_terms(s[j], varsknown, all)[1] = t}
             known == varsknown \cup
                      {s[i][k].v : <<i, k>> \in {ik \in block \X (1..3) :
                                                   s[ik[1]][ik[2]].kind = "var"}}
         IN  <<s[1]>> \o reorder_from(Tail(s), known, all)

\* the order in which the engine evaluates the patterns of the query
reorderTriples(pats) == reorder_from(pats, {}, pats)

\* the empty row: no variable bound
empty_row == [w \in {} |-> None]

\* the body of the try block for one rule whose parse and query succeed;
\* a solution that binds no variable is not yielded as a result row
apply_parsed_rule(g, rule) ==
    IF var_map(rule.antecedent) = {} THEN {g}
    ELSE rule_outcomes(g, reorderTriples(query_parts(rule.antecedent)), empty_row,
                       rule.consequent)

\* the rule raises inside the try block: in parse_cwm_rule or in the query
rule_fails(rule_text) ==
    LET rule == parse_cwm_rule(rule_text)
    IN  ~rule.ok \/ query_error(rule.antecedent)

RECURSIVE cwm_loop(_, _)
\* the exception of one rule ending the whole call
on_rule_error_abort(g, rest) == {[graph |-> g, raised |-> TRUE]}

\* except Exception: log and continue with the next rule
on_rule_error(g, rest) == cwm_loop(g, rest)

\* for rule in rules: the results the loop can end with
cwm_loop(g, rules) ==
    IF rules = <<>> THEN {[graph |-> g, raised |-> FALSE]}
    ELSE IF rule_fails(Head(rules))
         THEN on_rule_error(g, Tail(rules))
         ELSE UNION {cwm_loop(g2, Tail(rules)) :
                     g2 \in apply_parsed_rule(g, parse_cwm_rule(Head(rules)))}

\* new_graph = Graph() without the copy
copy_graph_empty(g) == {}

\* new_graph = Graph(), filled with every triple of the graph passed in
copy_graph(g) == {t \in g : TRUE}

\* apply_cwm_rules: the results it can return for the graph g and the text
apply_cwm_rules(g, txt) ==
    IF is_empty(txt) THEN {[graph |-> g, raised |-> FALSE]}
    ELSE cwm_loop(copy_graph(g), rule_lines(txt))

(***************************************************************************)
(* updatedapp.apply_custom_rules.  The piece "knows" occurs in a term only *)
(* as its last piece; "Knows" is another piece.                            *)
(***************************************************************************)
\* namespace = Namespace("http://example.org/inference#")
namespace == <<"http://", "example", ".", "org/inference#">>

\* namespace.indirectKnows
indirectKnows == namespace \o <<"indirect", "Knows">>

\* the test matching the capital K as well
endswith_knows_any_case(p) == p # <<>> /\ p[Len(p)] \in {"knows", "Knows"}

\* str(p).endswith('knows')
endswith_knows(p) == p # <<>> /\ p[Len(p)] = "knows"

\* the body of the outer loop for a triple t = (s, p, o) whose predicate
\* passes the test, on the running graph g: the triples of subject o are
\* read from g
indirect_step(g, t) ==
    g \cup {<<t[1], indirectKnows, u[3]>> :
               u \in {v \in g : v[1] = t[3] /\ endswith_knows(v[2])}}

\* for s, p, o in list(graph): the triples of the copy still to visit, in
\* the order the store gave them; a triple whose predicate fails the test
\* does nothing and is left out of pending
RECURSIVE indirect_loop(_, _)
indirect_loop(g, pending) ==
    IF pending = {} THEN {g}
    ELSE UNION {indirect_loop(indirect_step(g, t), pending \ {t}) : t \in pending}

\* updatedapp.apply_custom_rules: the graphs it can return
updatedapp_apply_custom_rules(g, rules) ==
    IF is_empty(rules) \/ is_blank(rules) THEN {g}
    ELSE indirect_loop(g, {t \in g : endswith_knows(t[2])})

(***************************************************************************)
(* run_query: the tiers applied to the parsed graph before the query       *)
(***************************************************************************)
\* the if/elif chain on rule_set of testapp.run_query: the graphs it can
\* leave, whether the tier raised, and the tiers it called
testapp_select_tier(g, rule_set, custom_rules) ==
    IF rule_set = "basic"
    THEN {[graph |-> testapp_apply_basic_library_rules(g), raised |-> FALSE,
           tiers |-> <<"basic">>]}
    ELSE IF rule_set = "advanced"
    THEN {[graph |-> out, raised |-> FALSE, tiers |-> <<"advanced">>] :
            out \in testapp_apply_advanced_library_rules(g)}
    ELSE IF rule_set = "custom"
    THEN {[graph |-> testapp_apply_custom_rules(g, custom_rules).graph,
           raised |-> testapp_apply_custom_rules(g, custom_rules).raised,
           tiers |-> <<"custom">>]}
    ELSE {[graph |-> g, raised |-> FALSE, tiers |-> <<>>]}

\* the same chain of testapp1.run_query
testapp1_select_tier(g, rule_set, custom_rules) ==
    IF rule_set = "basic"
    THEN {[graph |-> testapp1_apply_basic_library_rules(g), raised |-> FALSE,
           tiers |-> <<"basic">>]}
    ELSE IF rule_set = "advanced"
    THEN {[graph |-> out, raised |-> FALSE, tiers |-> <<"advanced">>] :
            out \in testapp1_apply_advanced_library_rules(g)}
    ELSE IF rule_set = "custom"
    THEN {[graph |-> testapp1_apply_custom_rules(g, custom_rules).graph,
           raised |-> testapp1_apply_custom_rules(g, custom_rules).raised,
           tiers |-> <<"custom">>]}
    ELSE {[graph |-> g, raised |-> FALSE, tiers |-> <<>>]}

\* if cwm_rules: graph = apply_cwm_rules(graph, cwm_rules), reached when
\* the tier before it did not raise
testapp1_then_cwm(first, cwm_rules) ==
    IF first.raised \/ is_empty(cwm_rules) THEN {first}
    ELSE {[graph |-> res.graph, raised |-> res.raised,
           tiers |-> Append(first.tiers, "declarative")] :
            res \in apply_cwm_rules(first.graph, cwm_rules)}

\* the rule part of testapp.run_query
testapp_run_query(g, rule_set, custom_rules) == testapp_select_tier(g, rule_set, custom_rules)

\* the rule part of testapp1.run_query
testapp1_run_query(g, rule_set, custom_rules, cwm_rules) ==
    UNION {testapp1_then_cwm(first, cwm_rules) :
           first \in testapp1_select_tier(g, rule_set, custom_rules)}

(***************************************************************************)
(* Inputs: graphs and rule texts                                           *)
(***************************************************************************)
Book1 == Ex(<<"Book1">>)
Book2 == Ex(<<"Book2">>)
Alice == Ex(<<"Alice">>)
Carol == Ex(<<"Carol">>)
SciFi == Ex(<<"SciFi">>)
Fantasy == Ex(<<"Fantasy">>)
Loan1 == Ex(<<"Loan1">>)
Loan2 == Ex(<<"Loan2">>)
Bob == Ex(<<"Bob">>)

MaxTriples == 4

MaxLines == 2

\* the graphs of the fixed tiers: books with one or two authors and genres,
\* loans, typed resources, genre preferences
LibraryTriples ==
    { <<Book1, hasAuthor, Alice>>, <<Book2, hasAuthor, Alice>>, <<Book1, hasAuthor, Carol>>,
      <<Book1, hasGenre, SciFi>>, <<Book2, hasGenre, SciFi>>, <<Book2, hasGenre, Fantasy>>,
      <<Loan1, borrowedBy, Bob>>, <<Loan2, borrowedBy, Bob>>,
      <<Book1, RDF_type, Book>>, <<Loan1, RDF_type, Loan>>, <<Bob, RDF_type, User>>,
      <<Bob, prefersGenre, SciFi>>, <<Bob, prefersGenre, Fantasy>> }

LibraryGraphs == {g \in SUBSET LibraryTriples : Cardinality(g) <= MaxTriples}

\* the graph of scenario 1
Scenario1 ==
    { <<Book1, hasAuthor, Alice>>, <<Book2, hasAuthor, Alice>>,
      <<Book1, hasGenre, SciFi>>, <<Book2, hasGenre, SciFi>>,
      <<Loan1, borrowedBy, Bob>>, <<Loan2, borrowedBy, Bob>> }

\* the graphs of the text tiers: parts of scenario 1, with or without a
\* wrote triple already present and a triple whose predicate is the IRI
\* EX + "ex:hasAuthor"
RuleTriples ==
    { <<Book1, hasAuthor, Alice>>, <<Book2, hasAuthor, Alice>>,
      <<Book1, hasGenre, SciFi>>, <<Book2, hasGenre, SciFi>>,
      <<Alice, wrote, Book1>>, <<Book1, Ex(<<"ex:", "hasAuthor">>), Alice>> }

RuleGraphs == {g \in SUBSET RuleTriples : Cardinality(g) <= MaxTriples} \cup {Scenario1}

\* a line from its words, one space between two words
RECURSIVE line(_)
line(ws) == IF Len(ws) = 1 THEN ws[1] ELSE ws[1] \o <<" ">> \o line(Tail(ws))

\* the texts of one to n lines drawn from lines, and the empty text
Texts(lines, n) == {<< <<>> >>} \cup UNION {[1..k -> lines] : k \in 1..n}

NoText == << <<>> >>

\* a full IRI without a '.' as predicate of the consequent
FullIriConsequentRule ==
    line(<< <<"?", "x">>, <<"hasAuthor">>, <<"?", "y">>, <<"=>">>,
            <<"?", "y">>, <<"http://", "localhost/wrote">>, <<"?", "x">> >>)

\* lines for the custom tier: the implemented pair in the IF/THEN and the
\* => shape, each also with the separator twice, a recognized shape with
\* another pair, a blank line, a line with 'wrote' inside a longer token
CustomLines ==
    { line(<< <<"IF">>, <<"?", "b">>, <<"hasAuthor">>, <<"?", "a">>, <<"THEN">>,
               <<"?", "a">>, <<"wrote">>, <<"?", "b">> >>),
      line(<< <<"IF">>, <<"hasAuthor">>, <<"THEN">>, <<"wrote">>, <<"THEN">>, <<"writtenBy">> >>),
      line(<< <<"?", "b">>, <<"hasAuthor">>, <<"?", "a">>, <<"=>">>,
               <<"?", "a">>, <<"wrote">>, <<"?", "b">> >>),
      line(<< <<"hasAuthor">>, <<"=>">>, <<"wrote">>, <<"=>">>, <<"writtenBy">> >>),
      line(<< <<"IF">>, <<"wrote">>, <<"THEN">>, <<"hasAuthor">> >>),
      <<" ">>,
      FullIriConsequentRule }

CustomTexts == Texts(CustomLines, MaxLines)

\* the rule of scenario 4 and of the form's hint
HintRule ==
    line(<< <<"?", "x">>, <<"ex:", "hasAuthor">>, <<"?", "y">>, <<"=>">>,
            <<"?", "y">>, <<"ex:", "wrote">>, <<"?", "x">> >>)

\* the rule of the form's placeholder
PlaceholderRule ==
    line(<< <<"?", "x">>, <<"hasAuthor">>, <<"?", "y">>, <<"=>">>,
            <<"?", "y">>, <<"wrote">>, <<"?", "x">> >>)

\* a rule whose consequent produces the predicate its antecedent reads
FeedbackRule ==
    line(<< <<"?", "x">>, <<"hasAuthor">>, <<"?", "y">>, <<"=>">>,
            <<"?", "y">>, <<"hasAuthor">>, <<"Carol">> >>)

\* a rule with a variable as predicate on both sides
VariablePredicateRule ==
    line(<< <<"?", "s">>, <<"?", "p">>, <<"?", "o">>, <<"=>">>,
            <<"?", "o">>, <<"?", "p">>, <<"?", "s">> >>)

\* lines for the declarative tier: the rules above, a rule reading what
\* the placeholder rule derives, and failing lines: no =>, two =>, a clause
\* of two words, a variable predicate
CwmLines ==
    { HintRule, PlaceholderRule, FeedbackRule,
      line(<< <<"?", "y">>, <<"wrote">>, <<"?", "x">>, <<"=>">>,
              <<"?", "x">>, <<"writtenBy">>, <<"?", "y">> >>),
      line(<< <<"?", "x">>, <<"hasAuthor">>, <<"?", "y">>, <<"?", "y">>, <<"wrote">>, <<"?", "x">> >>),
      line(<< <<"?", "x">>, <<"hasAuthor">>, <<"?", "y">>, <<"=>">>, <<"?", "y">>, <<"wrote">>,
              <<"?", "x">>, <<"=>">>, <<"?", "x">>, <<"writtenBy">>, <<"?", "y">> >>),
      line(<< <<"?", "x">>, <<"hasAuthor">>, <<"=>">>, <<"?", "y">>, <<"wrote">>, <<"?", "x">> >>),
      VariablePredicateRule }

CwmTexts == Texts(CwmLines, MaxLines)

\* a join of two patterns on ?x whose consequent feeds neither of them
JoinRule ==
    line(<< <<"?", "x">>, <<"hasAuthor">>, <<"?", "y">>, <<".">>,
            <<"?", "x">>, <<"hasGenre">>, <<"?", "g">>, <<"=>">>,
            <<"?", "y">>, <<"hasExpertise">>, <<"?", "g">> >>)

\* a join whose consequent derives triples its second pattern matches
SelfFeedingRule ==
    line(<< <<"?", "x">>, <<"hasAuthor">>, <<"?", "y">>, <<".">>,
            <<"?", "y">>, <<"wrote">>, <<"?", "z">>, <<"=>">>,
            <<"?", "y">>, <<"wrote">>, <<"?", "x">>, <<".">>,
            <<"?", "z">>, <<"relatedTo">>, <<"?", "x">> >>)

\* a join of three patterns that the engine does not evaluate in the order
\* of the text
ThreeClauseRule ==
    line(<< <<"?", "x">>, <<"hasAuthor">>, <<"?", "y">>, <<".">>,
            <<"?", "y">>, <<"wrote">>, <<"?", "z">>, <<".">>,
            <<"?", "x">>, <<"hasGenre">>, <<"?", "g">>, <<"=>">>,
            <<"?", "y">>, <<"hasExpertise">>, <<"?", "g">>, <<".">>,
            <<"?", "z">>, <<"relatedTo">>, <<"?", "x">> >>)

\* a consequent whose first template has a variable the antecedent does
\* not bind
UnboundTemplateRule ==
    line(<< <<"?", "x">>, <<"hasAuthor">>, <<"?", "y">>, <<"=>">>,
            <<"?", "y">>, <<"wrote">>, <<"?", "z">>, <<".">>,
            <<"?", "y">>, <<"wrote">>, <<"?", "x">> >>)

\* a bare constant as object of the antecedent and subject of the consequent
BareConstantRule ==
    line(<< <<"?", "x">>, <<"hasAuthor">>, <<"Alice">>, <<"=>">>,
            <<"Alice">>, <<"wrote">>, <<"?", "x">> >>)

\* the full IRI of EX.hasAuthor as predicate of the antecedent
FullIriAntecedentRule ==
    line(<< <<"?", "x">>, hasAuthor, <<"?", "y">>, <<"=>">>,
            <<"?", "y">>, <<"wrote">>, <<"?", "x">> >>)

\* lines for the joins and the tokens of the declarative tier
JoinLines ==
    { JoinRule, SelfFeedingRule, ThreeClauseRule, UnboundTemplateRule, BareConstantRule,
      FullIriAntecedentRule, FullIriConsequentRule, PlaceholderRule }

\* one line, or the placeholder rule and one line after it
JoinTexts == {<<l>> : l \in JoinLines} \cup {<<PlaceholderRule, l>> : l \in JoinLines}

Ann == Ex(<<"Ann">>)
Ben == Ex(<<"Ben">>)
Cy == Ex(<<"Cy">>)

\* predicates that end with 'knows', and one that ends with 'Knows'
foaf_knows == <<"http://", "xmlns", ".", "com/foaf/0", ".", "1/", "knows">>
ex_knows == Ex(<<"knows">>)
ex_Knows == Ex(<<"Knows">>)

\* graphs of acquaintance: a chain, a cycle, a self loop, two predicates
\* ending with 'knows', one ending with 'Knows', a triple that is already
\* an indirectKnows
KnowsTriples ==
    { <<Ann, foaf_knows, Ben>>, <<Ben, foaf_knows, Cy>>, <<Cy, ex_knows, Ann>>,
      <<Ann, ex_knows, Ann>>, <<Ben, ex_Knows, Ann>>, <<Cy, indirectKnows, Ben>>,
      <<Ben, hasAuthor, Cy>> }

KnowsGraphs == {g \in SUBSET KnowsTriples : Cardinality(g) <= MaxTriples}

\* the form field rules: empty, blank, and two texts of different content
KnowsTexts == {NoText, <<<<" ">>>>, <<<<"transitive">>>>, <<PlaceholderRule>>}

\* the values of the form field rule_set
RuleSets == {"none", "basic", "advanced", "custom"}

\* the form field custom_rules: empty or one line
FormCustomTexts == {NoText} \cup {<<l>> : l \in CustomLines}

\* the form field cwm_rules: empty, a rule that derives, a rule that
\* matches nothing, a line that fails
FormCwmTexts ==
    {NoText, <<PlaceholderRule>>, <<HintRule>>,
     <<line(<< <<"?", "x">>, <<"hasAuthor">>, <<"=>">>, <<"?", "y">>, <<"wrote">>, <<"?", "x">> >>)>>}

MaxClauses == 2

\* the number of words a clause can have: none, fewer than three, three, more
WordCounts == {0, 2, 3, 4}

ClauseWords == << <<"?", "x">>, <<"hasAuthor">>, <<"?", "y">>, <<"wrote">> >>

\* a clause of k words, a blank for k = 0
clause_text(k) == IF k = 0 THEN <<" ">> ELSE line(SubSeq(ClauseWords, 1, k))

\* the texts joined by the separator piece
RECURSIVE join(_, _)
join(ts, sep) ==
    IF ts = <<>> THEN <<>>
    ELSE IF Len(ts) = 1 THEN ts[1] ELSE ts[1] \o <<sep>> \o join(Tail(ts), sep)

\* one side of a rule: up to n clauses separated by '.'
Sides(n) ==
    {join([i \in 1..Len(ks) |-> clause_text(ks[i])], ".") :
        ks \in UNION {[1..m -> WordCounts] : m \in 0..n}}

\* lines for the parser: one side alone, two sides around one =>, three
\* sides of at most one clause around two =>
ParseLines ==
    Sides(MaxClauses)
    \cup {a \o <<"=>">> \o c : a \in Sides(MaxClauses), c \in Sides(MaxClauses)}
    \cup {a \o <<"=>">> \o b \o <<"=>">> \o c : a \in Sides(1), b \in Sides(1), c \in Sides(1)}

(***************************************************************************)
(* Operations.  graph is the caller's graph after the last call, input the *)
(* graph that call was given, op and text the tier and rule text of the    *)
(* call, raised whether it raised, again whether it repeated the call      *)
(* before it (same tier, same text) on that call's result, result what a   *)
(* call returns other than a graph.                                        *)
(***************************************************************************)
Call(name, txt, out, err) ==
    /\ ~raised
    /\ graph' = out
    /\ input' = graph
    /\ op' = name
    /\ text' = txt
    /\ again' = (op = name /\ text = txt)
    /\ raised' = err
    /\ result' = <<>>

\* the declarative tier is the first call on a graph, or is applied once
\* more with the same text to its own result; the custom tier is the first
\* call on a graph
FirstOrAgain(name, txt) == op = "none" \/ (op = name /\ text = txt /\ ~again)

Basic == \E out \in {testapp_apply_basic_library_rules(graph)} :
            Call("basic", NoText, out, FALSE)

Basic1 == \E out \in {testapp1_apply_basic_library_rules(graph)} :
            Call("basic1", NoText, out, FALSE)

Advanced == \E out \in testapp_apply_advanced_library_rules(graph) :
                Call("advanced", NoText, out, FALSE)

Advanced1 == \E out \in testapp1_apply_advanced_library_rules(graph) :
                Call("advanced1", NoText, out, FALSE)

Custom == \E txt \in CustomTexts :
              /\ op = "none"
              /\ Call("custom", txt, testapp_apply_custom_rules(graph, txt).graph,
                      testapp_apply_custom_rules(graph, txt).raised)

Custom1 == \E txt \in CustomTexts :
              /\ op = "none"
              /\ Call("custom1", txt, testapp1_apply_custom_rules(graph, txt).graph,
                      testapp1_apply_custom_rules(graph, txt).raised)

Cwm == \E txt \in IF op = "none" THEN CwmTexts ELSE {text} :
          /\ FirstOrAgain("cwm", txt)
          /\ \E res \in apply_cwm_rules(graph, txt) :
                Call("cwm", txt, res.graph, res.raised)

\* the declarative tier on the texts of joins and tokens
CwmJoin == \E txt \in JoinTexts :
              /\ op = "none"
              /\ \E res \in apply_cwm_rules(graph, txt) :
                    Call("cwm", txt, res.graph, res.raised)

\* one request to testapp.run_query, up to the evaluation of the query
RunQuery == \E rule_set \in RuleSets : \E custom_rules \in FormCustomTexts :
               /\ op = "none"
               /\ \E res \in testapp_run_query(graph, rule_set, custom_rules) :
                  /\ graph' = res.graph
                  /\ input' = graph
                  /\ op' = "run_query"
                  /\ text' = custom_rules
                  /\ raised' = res.raised
                  /\ result' = [rule_set |-> rule_set, custom_rules |-> custom_rules,
                                cwm_rules |-> NoText, tiers |-> res.tiers]
                  /\ UNCHANGED again

\* one request to testapp1.run_query, up to the evaluation of the query
RunQuery1 == \E rule_set \in RuleSets : \E custom_rules \in FormCustomTexts :
                \E cwm_rules \in FormCwmTexts :
                   /\ op = "none"
                   /\ \E res \in testapp1_run_query(graph, rule_set, custom_rules, cwm_rules) :
                      /\ graph' = res.graph
                      /\ input' = graph
                      /\ op' = "run_query1"
                      /\ text' = cwm_rules
                      /\ raised' = res.raised
                      /\ result' = [rule_set |-> rule_set, custom_rules |-> custom_rules,
                                    cwm_rules |-> cwm_rules, tiers |-> res.tiers]
                      /\ UNCHANGED again

\* updatedapp.apply_custom_rules, as the first call or once more with
\* the same rules on its own result
CustomKnows == \E rules \in IF op = "none" THEN KnowsTexts ELSE {text} :
                 /\ FirstOrAgain("knows", rules)
                 /\ \E out \in updatedapp_apply_custom_rules(graph, rules) :
                       Call("knows", rules, out, FALSE)

\* parse_cwm_rule called on one line
Parse == \E rule_text \in ParseLines :
            /\ op = "none"
            /\ op' = "parse"
            /\ text' = <<rule_text>>
            /\ result' = parse_cwm_rule(rule_text)
            /\ raised' = ~parse_cwm_rule(rule_text).ok
            /\ UNCHANGED <<graph, input, again>>

InitWith(graphs) ==
    /\ graph \in graphs
    /\ input = graph
    /\ op = "none"
    /\ text = NoText
    /\ again = FALSE
    /\ raised = FALSE
    /\ result = <<>>

InitFixed == InitWith(LibraryGraphs)

NextFixed == Basic \/ Basic1 \/ Advanced \/ Advanced1

\* the fixed tiers alone, on library graphs
SpecFixed == InitFixed /\ [][NextFixed]_vars

Init == InitWith(RuleGraphs)

NextCustom == Custom \/ Custom1

\* the custom tier of both variants
SpecCustom == Init /\ [][NextCustom]_vars

NextCwm == Cwm

\* the declarative tier, applied once or twice
SpecCwm == Init /\ [][NextCwm]_vars

NextJoin == CwmJoin

\* the declarative tier on rules with joins, unbound template variables,
\* constants and full IRIs
SpecJoin == Init /\ [][NextJoin]_vars

NextRunQuery == RunQuery \/ RunQuery1

\* the request handlers of both variants
SpecRunQuery == Init /\ [][NextRunQuery]_vars

InitKnows == InitWith(KnowsGraphs)

NextKnows == CustomKnows

\* the rule tier of updatedapp
SpecKnows == InitKnows /\ [][NextKnows]_vars

InitParse == InitWith({{}})

NextParse == Parse

\* the rule parser alone
SpecParse == InitParse /\ [][NextParse]_vars

Next == Basic \/ Basic1 \/ Advanced \/ Advanced1 \/ Custom \/ Custom1 \/ Cwm

\* every tier, on the graphs of the text tiers
Spec == Init /\ [][Next]_vars

(***************************************************************************)
(* Properties                                                              *)
(***************************************************************************)
FixedOps == {"basic", "basic1", "advanced", "advanced1"}

CustomOps == {"custom", "custom1"}

\* C1: after a fixed tier, every (book, hasAuthor, author) of the input has
\* its (author, wrote, book) in the output, and every wrote triple the tier
\* added is the inversion of a hasAuthor triple of the input.
C1_AuthorInversion ==
    op \in FixedOps =>
        /\ \A t \in input : t[2] = hasAuthor => <<t[3], wrote, t[1]>> \in graph
        /\ \A t \in graph \ input : t[2] = wrote => <<t[3], hasAuthor, t[1]>> \in input

C1_Witness ==
    /\ op = "advanced1"
    /\ \E t \in input : t[2] = hasAuthor /\ <<t[3], wrote, t[1]>> \in graph \ input

\* C2: after a fixed tier, two different subjects sharing a hasGenre object
\* are relatedTo each other in both directions, and the tier added no
\* (book, relatedTo, book).
C2_CoGenre ==
    op \in FixedOps =>
        /\ \A t1 \in input : \A t2 \in input :
              (t1[2] = hasGenre /\ t2[2] = hasGenre /\ t1[3] = t2[3] /\ t1[1] # t2[1])
              => (<<t1[1], relatedTo, t2[1]>> \in graph /\ <<t2[1], relatedTo, t1[1]>> \in graph)
        /\ \A t \in graph \ input : ~(t[2] = relatedTo /\ t[1] = t[3])

C2_Witness ==
    /\ op = "basic"
    /\ <<Book1, relatedTo, Book2>> \in graph \ input
    /\ <<Book2, relatedTo, Book1>> \in graph \ input

\* the loans of the input borrowed by the member
LoansOf(member) == {t[1] : t \in {u \in input : u[2] = borrowedBy /\ u[3] = member}}

\* C3: after the Basic rules of every variant (and so after the Advanced
\* rules), a member with two or more loans is typed FrequentBorrower, and
\* the type is added for no member with fewer loans.
C3_FrequentBorrower ==
    op \in FixedOps =>
        \A member \in {t[3] : t \in input} \cup {t[1] : t \in graph} :
            /\ Cardinality(LoansOf(member)) >= 2
               => <<member, RDF_type, FrequentBorrower>> \in graph
            /\ Cardinality(LoansOf(member)) < 2
               => <<member, RDF_type, FrequentBorrower>> \notin graph \ input

\* C4: the graph a tier returns contains the graph it was given, for every
\* tier and every rule text, also when the graph given is the result of
\* earlier tiers.
C4_Monotone == (op # "none" /\ ~raised) => input \subseteq graph

\* the Advanced rules adding triples to a graph that holds a triple with
\* the predicate EX + "ex:wrote", which only a declarative rule derives
C4_Witness ==
    /\ op = "advanced"
    /\ \E t \in input : t[2] = Ex(<<"ex:", "wrote">>)
    /\ graph # input

\* C5: a fixed tier applied to its own output adds nothing.
C5_Idempotent == (again /\ op \in FixedOps) => graph = input

\* C6: the rule of scenario 4 applied to the graph of scenario 1 adds
\* exactly (Alice, wrote, Book1) and (Alice, wrote, Book2).
C6_Scenario4 ==
    (op = "cwm" /\ input = Scenario1 /\ text = <<HintRule>>)
    => graph = input \cup {<<Alice, wrote, Book1>>, <<Alice, wrote, Book2>>}

\* the predicate a consequent template can produce is one the antecedent
\* reads: a variable on either side, or the same IRI
feeds_back(rule) ==
    \E i \in 1..Len(rule.antecedent) : \E j \in 1..Len(rule.consequent) :
        \/ startswith(rule.antecedent[i][2], "?")
        \/ startswith(rule.consequent[j][2], "?")
        \/ Ex(rule.consequent[j][2]) = sparql_term(predicate_text(rule.antecedent[i][2])).v

\* the text is one rule line
single_rule(txt) == Len(txt) = 1 /\ strip(txt[1]) # <<>>

\* C7: a single declarative rule whose consequent produces none of its
\* antecedent's predicates, applied a second time to its own result, adds
\* nothing.
C7_SinglePassStable ==
    (op = "cwm" /\ again /\ single_rule(text)
        /\ (parse_cwm_rule(strip(text[1])).ok => ~feeds_back(parse_cwm_rule(strip(text[1])))))
    => graph = input

\* the second application of the placeholder rule, on a graph holding a
\* wrote triple that only the first application can have derived
C7_Witness ==
    /\ op = "cwm" /\ again
    /\ text = <<PlaceholderRule>>
    /\ <<Alice, wrote, Book2>> \in input
    /\ graph = input

\* the text without its failing lines
without_failing(txt) == SelectSeq(txt, LAMBDA l : ~rule_fails(strip(l)))

\* C8: apply_cwm_rules never raises, and what it returns is what it can
\* return for the same text with the failing lines removed.
C8_RuleIsolation ==
    op = "cwm" =>
        /\ ~raised
        /\ [graph |-> graph, raised |-> FALSE] \in apply_cwm_rules(input, without_failing(text))

\* a failing line before a line that derives triples, and the other order
C8_Witness ==
    /\ op = "cwm"
    /\ Len(text) = MaxLines
    /\ \/ rule_fails(text[1]) /\ ~rule_fails(text[Len(text)])
       \/ ~rule_fails(text[1]) /\ rule_fails(text[Len(text)])
    /\ graph # input

\* C9: when apply_custom_rules raises, the caller's graph is as it was
\* before the call.
C9_AllOrNothing == (op \in CustomOps /\ raised) => graph = input

\* the shape a variant recognizes, and its separator
separator(name) == IF name = "custom" THEN "THEN" ELSE "=>"

recognized(name, rule) ==
    IF name = "custom" THEN startswith(rule, "IF") /\ contains(rule, "THEN")
    ELSE contains(rule, "=>")

\* a recognized line with the separator more than once
malformed(name, rule) == recognized(name, rule) /\ Len(split(rule, separator(name))) > 2

\* a recognized line whose condition mentions hasAuthor and whose action
\* mentions wrote
triggers(name, rule) ==
    /\ recognized(name, rule)
    /\ Len(split(rule, separator(name))) = 2
    /\ contains(split(rule, separator(name))[1], "hasAuthor")
    /\ contains(split(rule, separator(name))[2], "wrote")

\* the Author-inversion triples of a graph
inversions(g) == {<<t[3], wrote, t[1]>> : t \in {u \in g : u[2] = hasAuthor}}

\* C10 as stated: apply_custom_rules returns without error for every text,
\* the graph unchanged when no line triggers and with exactly the
\* inversions added otherwise.
C10_AlwaysReturns ==
    op \in CustomOps =>
        /\ ~raised
        /\ graph = IF \E i \in 1..Len(text) : triggers(op, strip(text[i]))
                   THEN input \cup inversions(input) ELSE input

\* C10 amended: apply_custom_rules raises exactly when a recognized line
\* has the separator more than once; otherwise it returns the graph
\* unchanged when no line triggers and with exactly the inversions added
\* when one does; other lines have no effect.
C10_CustomResult ==
    op \in CustomOps =>
        /\ raised <=> \E i \in 1..Len(text) : malformed(op, strip(text[i]))
        /\ ~raised =>
              graph = IF \E i \in 1..Len(text) : triggers(op, strip(text[i]))
                      THEN input \cup inversions(input) ELSE input

\* a text of a triggering line and a recognized line of another pair, on a
\* graph with an author
C10_Witness ==
    /\ op = "custom" /\ ~raised
    /\ Len(text) = MaxLines
    /\ triggers(op, text[1]) /\ ~triggers(op, text[Len(text)]) /\ recognized(op, text[Len(text)])
    /\ graph # input

\* the number of => pieces of a line
arrows(s) == Cardinality({i \in 1..Len(s) : s[i] = "=>"})

\* the places of the pieces that end a clause, and the two ends of the line
delimiters(s) == {0, Len(s) + 1} \cup {i \in 1..Len(s) : s[i] \in {".", "=>"}}

\* the number of tokens between the places a and b: a token starts at a
\* piece that is not white space and follows white space or a
word_count(s, a, b) ==
    Cardinality({i \in (a + 1)..(b - 1) : s[i] # " " /\ (i = a + 1 \/ s[i - 1] = " ")})

\* every clause of the line is empty or has exactly three tokens
clauses_of_three(s) ==
    \A a \in delimiters(s) : \A b \in delimiters(s) :
        (a < b /\ \A c \in delimiters(s) : ~(a < c /\ c < b))
        => word_count(s, a, b) \in {0, 3}

\* the number of non-empty clauses between the places a and b
clause_count(s, a, b) ==
    Cardinality({d \in delimiters(s) :
                    /\ a <= d /\ d < b
                    /\ \E e \in delimiters(s) :
                          /\ d < e /\ e <= b
                          /\ \A c \in delimiters(s) : ~(d < c /\ c < e)
                          /\ word_count(s, d, e) > 0})

\* the tokens of the clauses, one after the other
RECURSIVE flatten(_)
flatten(cs) == IF cs = <<>> THEN <<>> ELSE Head(cs) \o flatten(Tail(cs))

\* the line with every clause end replaced by white space
undelimited(s) == [i \in 1..Len(s) |-> IF s[i] \in {".", "=>"} THEN " " ELSE s[i]]

\* C11: parse_cwm_rule succeeds exactly on the lines with one => whose
\* non-empty clauses all have three tokens; it then returns the clauses of
\* each side in the order of the text, a side without clauses included;
\* on every other line it raises.
C11_ParserAcceptance ==
    op = "parse" =>
        LET s == text[1]
            arrow == CHOOSE i \in 1..Len(s) : s[i] = "=>"
        IN  /\ result.ok <=> (arrows(s) = 1 /\ clauses_of_three(s))
            /\ raised <=> ~result.ok
            /\ result.ok =>
                  /\ Len(result.antecedent) = clause_count(s, 0, arrow)
                  /\ Len(result.consequent) = clause_count(s, arrow, Len(s) + 1)
                  /\ flatten(result.antecedent) \o flatten(result.consequent)
                        = words(undelimited(s))

\* a rule of two antecedent clauses and no consequent clause is accepted
C11_Witness ==
    /\ op = "parse"
    /\ result.ok
    /\ Len(result.antecedent) = MaxClauses
    /\ result.consequent = <<>>

\* the orders in which the clauses of one side can be written
clause_orders(cs) ==
    {[i \in 1..Len(cs) |-> cs[f[i]]] : f \in Permutations(1..Len(cs))}

\* the text of one side from its clauses
side_text(cs) == join([i \in 1..Len(cs) |-> line(cs[i])], ".")

\* the text of the rule with cs written as its antecedent
with_antecedent(rule, cs) ==
    side_text(cs) \o <<" ", "=>", " ">> \o side_text(rule.consequent)

\* C12: for a rule that parses and queries and every order in which the
\* clauses of its antecedent can be written, the patterns joined in that
\* order on the input graph give the rows they give in the order of the
\* rule; the graphs apply_cwm_rules can return for the rule written in that
\* order are the graphs it can return for the rule; and when the rule does
\* not feed its antecedent, the graph returned is the input graph with the
\* consequent instantiated for the rows of the patterns joined in that order.
C12_JoinCommutes ==
    (op = "cwm" /\ single_rule(text) /\ ~rule_fails(strip(text[1]))) =>
        LET rule == parse_cwm_rule(strip(text[1]))
        IN  \A cs \in clause_orders(rule.antecedent) :
               /\ rows(input, query_parts(cs), empty_row)
                     = rows(input, query_parts(rule.antecedent), empty_row)
               /\ apply_cwm_rules(input, <<with_antecedent(rule, cs)>>)
                     = apply_cwm_rules(input, text)
               /\ ~feeds_back(rule)
                  => graph = input \cup UNION {instantiate(rule.consequent, row) :
                                      row \in rows(input, query_parts(cs), empty_row)}

\* the rule of three clauses on a graph where one book joins its author,
\* the book the author wrote and its genre, and another book has no genre
C12_Witness ==
    /\ op = "cwm"
    /\ text = <<ThreeClauseRule>>
    /\ <<Book1, hasAuthor, Alice>> \in input /\ <<Book1, hasGenre, SciFi>> \in input
    /\ <<Book2, hasAuthor, Alice>> \in input /\ <<Book2, hasGenre, SciFi>> \notin input
    /\ <<Alice, wrote, Book1>> \in input
    /\ <<Alice, hasExpertise, SciFi>> \in graph \ input
    /\ <<Book1, relatedTo, Book1>> \in graph \ input
    /\ <<Book1, relatedTo, Book2>> \notin graph

\* one rule applied in a single pass: the consequent instantiated for the
\* rows of the antecedent on the graph as it is before the rule
single_pass(g, rule) ==
    g \cup UNION {instantiate(rule.consequent, row) :
                  row \in rows(g, query_parts(rule.antecedent), empty_row)}

\* the rules applied in order, each in a single pass on the running graph
RECURSIVE running_graph(_, _)
running_graph(g, rules) ==
    IF rules = <<>> THEN g
    ELSE running_graph(single_pass(g, parse_cwm_rule(Head(rules))), Tail(rules))

\* C16: for a text whose rules all parse and query, apply_cwm_rules returns
\* the input graph extended rule after rule, each rule adding exactly the
\* instantiations of its consequent for the rows of its antecedent on the
\* running graph as it was before that rule.
C16_RunningGraph ==
    (op = "cwm" /\ \A i \in 1..Len(text) : ~rule_fails(strip(text[i])))
    => graph = running_graph(input, rule_lines(text))

\* the templates of the consequent whose variables the antecedent binds,
\* instantiated for a row
bound_templates(rule, row) ==
    {<<template_value(rule.consequent[j][1], row),
       template_value(rule.consequent[j][2], row),
       template_value(rule.consequent[j][3], row)>> :
        j \in {i \in 1..Len(rule.consequent) :
                 \A k \in 1..3 : startswith(rule.consequent[i][k], "?")
                                   => rule.consequent[i][k] \in var_map(rule.antecedent)}}

\* C17: apply_cwm_rules never adds a triple with a variable or a missing
\* term, and a single rule that does not feed its antecedent adds, for
\* every row, exactly the templates whose variables the antecedent binds:
\* a template with an unbound variable is skipped and the others are not.
C17_TemplateSkipping ==
    op = "cwm" =>
        /\ ~raised
        /\ \A t \in graph \ input : \A k \in 1..3 : t[k] # None /\ ~startswith(t[k], "?")
        /\ (single_rule(text) /\ ~rule_fails(strip(text[1]))
               /\ ~feeds_back(parse_cwm_rule(strip(text[1]))))
           => LET rule == parse_cwm_rule(strip(text[1]))
              IN  graph = input \cup UNION {bound_templates(rule, row) :
                               row \in rows(input, query_parts(rule.antecedent), empty_row)}

\* the rule whose first template has the unbound ?z derives the triples of
\* its second template
C17_Witness ==
    /\ op = "cwm"
    /\ text = <<UnboundTemplateRule>>
    /\ <<Alice, wrote, Book2>> \in graph \ input

\* the term a token denotes as the claim has it: a variable, the full IRI
\* itself, or the default namespace followed by the token
claimed_term(w) ==
    IF startswith(w, "?") THEN [kind |-> "var", v |-> w]
    ELSE IF startswith(w, "http://") \/ startswith(w, "https://")
         THEN [kind |-> "iri", v |-> w]
         ELSE [kind |-> "iri", v |-> Ex(w)]

claimed_patterns(antecedent) ==
    [i \in 1..Len(antecedent) |->
        <<claimed_term(antecedent[i][1]), claimed_term(antecedent[i][2]),
          claimed_term(antecedent[i][3])>>]

claimed_value(w, row) ==
    IF claimed_term(w).kind = "iri" THEN claimed_term(w).v
    ELSE IF w \in DOMAIN row THEN row[w] ELSE None

claimed_instantiate(consequent, row) ==
    {<<claimed_value(consequent[j][1], row), claimed_value(consequent[j][2], row),
       claimed_value(consequent[j][3], row)>> :
        j \in {i \in 1..Len(consequent) :
                 \A k \in 1..3 : claimed_value(consequent[i][k], row) # None}}

\* C18: a single rule that does not feed its antecedent adds exactly the
\* instantiations of its consequent for the rows of its antecedent, every
\* token of either side read as a variable, a full IRI or default
\* namespace + token; the rule with the full IRI of hasAuthor as predicate
\* adds the inversions.
C18_TokenResolution ==
    /\ (op = "cwm" /\ single_rule(text) /\ parse_cwm_rule(strip(text[1])).ok
           /\ ~feeds_back(parse_cwm_rule(strip(text[1]))))
       => LET rule == parse_cwm_rule(strip(text[1]))
          IN  graph = input \cup UNION {claimed_instantiate(rule.consequent, row) :
                           row \in rows(input, claimed_patterns(rule.antecedent), empty_row)}
    /\ (op = "cwm" /\ text = <<FullIriAntecedentRule>>)
       => graph = input \cup inversions(input)

\* C13: a request to run_query applies at most one of the tiers basic,
\* advanced, custom, declarative, whatever the form fields.
C13_TierExclusive ==
    op \in {"run_query", "run_query1"} => Len(result.tiers) <= 1

AdvancedOps == {"advanced", "advanced1"}

\* C14: after the Advanced rules, every author of a typed Book has
\* hasExpertise for every genre of that book.
C14_AuthorExpertise ==
    op \in AdvancedOps =>
        \A b \in input : \A a \in input : \A g \in input :
            (/\ b[2] = RDF_type /\ b[3] = Book
             /\ a[1] = b[1] /\ a[2] = hasAuthor
             /\ g[1] = b[1] /\ g[2] = hasGenre)
            => <<a[3], hasExpertise, g[3]>> \in graph

\* the graphs the tier of the last call can return for its input
outcomes_of(name, g) ==
    IF name = "basic" THEN {testapp_apply_basic_library_rules(g)}
    ELSE IF name = "basic1" THEN {testapp1_apply_basic_library_rules(g)}
    ELSE IF name = "advanced" THEN testapp_apply_advanced_library_rules(g)
    ELSE testapp1_apply_advanced_library_rules(g)

\* C15: the graph a fixed tier returns is determined by its input graph as
\* a set of triples: it is the only graph the tier can return for it.
C15_Deterministic == op \in FixedOps => outcomes_of(op, input) = {graph}

\* C19: the rule ?s ?p ?o => ?o ?p ?s binds ?p to the predicate of every
\* triple and adds the triple with subject and object exchanged.
C19_VariablePredicate ==
    (op = "cwm" /\ text = <<VariablePredicateRule>>)
    => \A t \in input : <<t[3], t[2], t[1]>> \in graph

\* the pairs of triples of g linked through a shared term, both with a
\* predicate whose last piece is 'knows'
knows_pairs(g) ==
    {pr \in g \X g : /\ pr[1][3] = pr[2][1]
                      /\ pr[1][2][Len(pr[1][2])] = "knows"
                      /\ pr[2][2][Len(pr[2][2])] = "knows"}

\* C20: updatedapp.apply_custom_rules returns the graph unchanged for a
\* blank text and, for any other text, the graph with exactly the triples
\* (s, indirectKnows, z) of the pairs (s, p, o), (o, p2, z) of the input
\* whose predicates end with 'knows'; applied a second time it adds nothing.
C20_IndirectKnows ==
    op = "knows" =>
        /\ ~raised
        /\ graph = IF is_blank(text) THEN input
                   ELSE input \cup {<<pr[1][1], indirectKnows, pr[2][3]>> : pr \in knows_pairs(input)}
        /\ again => graph = input

\* the second application on a graph in which the first derived that Ann
\* indirectly knows Cy
C20_Witness ==
    /\ op = "knows" /\ again
    /\ ~is_blank(text)
    /\ <<Ann, indirectKnows, Cy>> \in input
    /\ <<Ann, indirectKnows, Cy>> \notin KnowsTriples
    /\ graph = input

====
